---- MODULE Spec2Model ----
(***************************************************************************)
(* A model of the CoherentPEM Tango device (src/CoherentPEM.py): the       *)
(* connection life cycle, the READ? decoder with the cached last reading,  *)
(* the unit scale, the statistics-mode flag, the serial exchanges of every *)
(* attribute handler, and the rolling statistics over the Value history.   *)
(*                                                                         *)
(* Conventions.                                                            *)
(*  - A reply line is the sequence of its comma-separated fields, each a   *)
(*    token (a string): response.split(',').  A read that times out gives  *)
(*    the empty line, whose split is the single empty field <<"">>.        *)
(*  - A Python value is a pair <<kind, n>>: "unset" (the attribute does    *)
(*    not exist on the object yet), "empty" (the string ''), "f" (a float, *)
(*    n in tenths), "i" (an int), "nan", "b" (a bool), "s" (a string       *)
(*    result), "ON"/"OFF" (a DevState), "none" (no value: the handler      *)
(*    raised).                                                             *)
(*  - The identification string is kept by the variant it names:           *)
(*    "EnergyMax", "PowerMax" or "Other" (neither substring occurs).       *)
(***************************************************************************)
EXTENDS Integers, Sequences, FiniteSets, TLC

VARIABLES
    instrument,  \* the meter on the port, by the variant its *IDN? reply names
    phase,       \* "new" | "inited" | "running" | "deleted": the server's life cycle
    state,       \* what set_state last stored: "UNKNOWN" | "INIT" | "ON" | "OFF"
    lastInit,    \* outcome of the most recent init_device: "none" | "ok" | "failed"
    ser,         \* self.ser: "unset" | "open"
    ID,          \* self.ID: "unset" | "EnergyMax" | "PowerMax" | "Other"
    statmode,    \* self.statmode: "unset" | TRUE | FALSE (kept as "on" | "off")
    unitscale,   \* self.unitscale: <<"unset",0>> or <<"i", 0..2>>
    unit,        \* the unit label of the Value attribute ("" until one is set)
    cache,       \* self.min, max, std, dose, missed, seqid, period, flags
    fresh,       \* the cached fields the most recent read_Value call assigned
    rx,          \* the transport's input buffer: the queries whose reply is unread
    dyn,         \* the dynamic attributes registered: "none" | "EnergyMax" |
                 \*   "EnergyMaxNoTrig" | "PowerMax"
    hist,        \* the Value attribute's polling ring buffer, oldest first
    value_attr,  \* self.value_attr and self.poll_buffer: "unset" | "set"
    value_hist,  \* self.value_hist: <<"unset", <<>>>> or <<"set", sequence>>
    out          \* the last handler run: what it wrote, read and returned

vars == <<instrument, phase, state, lastInit, ser, ID, statmode, unitscale, unit, cache,
          fresh, rx, dyn, hist, value_attr, value_hist, out>>

----------------------------------------------------------------------------
(* Bounds of the model *)

\* The polling ring depth of the Value attribute (get_attr_poll_ring_depth).
RingDepth == 2

----------------------------------------------------------------------------
(* Python values *)

Unset == <<"unset", 0>>
Empty == <<"empty", 0>>
NaN == <<"nan", 0>>
NoValue == <<"none", 0>>
Flt(n) == <<"f", n>>
Int_(n) == <<"i", n>>
Bool(b) == <<"b", IF b THEN 1 ELSE 0>>
Str(n) == <<"s", n>>

IsFloat(v) == v[1] = "f"
IsInt(v) == v[1] = "i"

\* The tokens int() accepts, and their values.
IntToks == {"2", "3", "7"}
\* The tokens float() accepts: every int token and the decimal "1.5".
FloatToks == IntToks \cup {"1.5"}

IntVal(t) == CASE t = "2" -> 2 [] t = "3" -> 3 [] t = "7" -> 7 [] OTHER -> 0

\* float(t), in tenths.
FloatVal(t) == IF t = "1.5" THEN 15 ELSE 10 * IntVal(t)

\* 1000 ** u
UnitBase == 1000

RECURSIVE Pow(_, _)
Pow(b, e) == IF e = 0 THEN 1 ELSE b * Pow(b, e - 1)

\* float(tok), int(tok) and the plain use of a field: [ok, v]; ok = FALSE is
\* the ValueError the conversion raises.
Convert(conv, tok) ==
    CASE conv = "float" -> IF tok \in FloatToks THEN [ok |-> TRUE, v |-> Flt(FloatVal(tok))]
                           ELSE [ok |-> FALSE, v |-> NoValue]
      [] conv = "int" -> IF tok \in IntToks THEN [ok |-> TRUE, v |-> Int_(IntVal(tok))]
                         ELSE [ok |-> FALSE, v |-> NoValue]
      [] OTHER -> [ok |-> TRUE, v |-> tok]

\* x * (1000 ** unitscale) for a float or int x and an int unit scale.
Scaled(x, u) == <<x[1], x[2] * Pow(UnitBase, u[2])>>

----------------------------------------------------------------------------
(* The READ? decoder of read_Value *)

StatFields == {"min", "max", "std", "dose", "missed"}
CacheFields == StatFields \cup {"flags", "seqid", "period"}

NoFlags == "<unset>"

CacheInit == [min |-> Unset, max |-> Unset, std |-> Unset, dose |-> Unset,
              missed |-> Unset, seqid |-> Unset, period |-> Unset, flags |-> NoFlags]

Step(f, i, conv) == [f |-> f, i |-> i, conv |-> conv]

\* EnergyMax, statistics off: value, period, flags, seqId; then the statistics
\* fields are set to ''.
LayoutPlain ==
    << Step("value", 1, "float"), Step("period", 2, "int"), Step("flags", 3, "str"),
       Step("seqid", 4, "int"), Step("min", 0, "clear"), Step("max", 0, "clear"),
       Step("std", 0, "clear"), Step("dose", 0, "clear"), Step("missed", 0, "clear") >>

\* EnergyMax, statistics on: value, min, max, std, dose, missed, flags, seqId.
LayoutStat ==
    << Step("value", 1, "float"), Step("min", 2, "float"), Step("max", 3, "float"),
       Step("std", 4, "float"), Step("dose", 5, "float"), Step("missed", 6, "int"),
       Step("flags", 7, "str"), Step("seqid", 8, "int") >>

\* PowerMax: value, flags, seqId.
LayoutPower ==
    << Step("value", 1, "float"), Step("flags", 2, "str"), Step("seqid", 3, "int") >>

\* A decoder that uses the statistics layout on an EnergyMax whatever the flag.
LayoutIgnoringMode(id, sm) ==
    CASE id = "EnergyMax" -> LayoutStat
      [] id = "PowerMax" -> LayoutPower
      [] OTHER -> << >>

\* A decoder that uses the plain layout on an EnergyMax whatever the flag.
LayoutPlainOnly(id, sm) ==
    CASE id = "EnergyMax" -> LayoutPlain
      [] id = "PowerMax" -> LayoutPower
      [] OTHER -> << >>

\* The assignments read_Value runs for the variant and the statistics flag.
Layout(id, sm) ==
    CASE id = "EnergyMax" -> IF sm = "off" THEN LayoutPlain ELSE LayoutStat
      [] id = "PowerMax" -> LayoutPower
      [] OTHER -> << >>

\* The number of fields of the layout's reply line.
FieldCount(id, sm) ==
    CASE id = "EnergyMax" -> IF sm = "off" THEN 4 ELSE 8
      [] id = "PowerMax" -> 3
      [] OTHER -> 0

Assign(acc, f, v) ==
    IF f = "value" THEN [acc EXCEPT !.value = v]
    ELSE [acc EXCEPT !.c[f] = v, !.fresh = @ \cup {f}]

\* The assignments in source order, stopping at the first that raises:
\* data[i] past the end is an IndexError, a failed conversion a ValueError.
\* What was assigned before the exception stays assigned.
RECURSIVE RunSteps(_, _, _)
RunSteps(steps, data, acc) ==
    IF steps = << >> THEN acc
    ELSE LET st == Head(steps) IN
         IF st.conv = "clear" THEN RunSteps(Tail(steps), data, Assign(acc, st.f, Empty))
         ELSE IF st.i > Len(data) THEN [acc EXCEPT !.err = "IndexError"]
         ELSE LET r == Convert(st.conv, data[st.i]) IN
              IF ~r.ok THEN [acc EXCEPT !.err = "ValueError"]
              ELSE RunSteps(Tail(steps), data, Assign(acc, st.f, r.v))

\* Lines 350-374: the decode of one reply line over the cached fields c.
Decode(id, sm, data, c) ==
    RunSteps(Layout(id, sm), data,
             [c |-> c, value |-> Unset, fresh |-> {}, err |-> "none"])

----------------------------------------------------------------------------
(* The serial transport and the instrument *)

\* The query lines of the protocol: the instrument answers each with one line.
QREAD == "READ?"
QIDN == "*IDN?"
QSNUM == "SYSTem:INFormation:SNUMber?"
QMODEL == "SYSTem:INFormation:MODel?"
QSTAT == "CONFigure:MEASure:STATistics?"
QTYPE == "CONFigure:MEASure:TYPE?"
QMEAS == "CONFigure:MEASure?"
QRANGEMAX == "CONFigure:RANGe:SELect? MAX"

CSTART == "CONFigure:STATistics:STARt"
CSTOP == "CONFigure:STATistics:STOP"
CSTATON == "CONFigure:MEASure:STATistics ON"
CSTATOFF == "CONFigure:MEASure:STATistics OFF"
CITEMS_E == "CONFigure:ITEMselect PULS,PER,FLAG,SEQ"
CITEMS_S == "CONFigure:STATistics:ITEMselect MEAN,MIN,MAX,STDV,DOSE,MISS,FLAG,SEQ"
CITEMS_P == "CONFigure:ITEMselect MEAS,FLAG,TST"

\* The empty line: what readline gives when nothing arrives within the timeout.
Timeout == << "" >>

\* Reply lines to READ?: well-formed ones of each layout, and malformed ones.
ReadLines ==
    { << "2", "3", "F", "7" >>,                          \* value,period,flags,seqId
      << "3", "1.5", "7", "1.5", "2", "3", "G", "2" >>,   \* the statistics layout
      << "2", "F", "7" >>,                               \* value,flags,seqId
      << "3", "G", "2" >>,
      << "1.5", "2", "FLAG" >>,                          \* too few / not a number
      << "2", "3", "F", "7", "3" >>,                     \* one field too many
      << "2", "F", "7", "3" >>,
      Timeout }

\* Replies to the statistics-mode, measurement-type and other queries.
OnOffLines == { << "ON" >>, << "OFF" >> }
TypeLines == { << "J" >>, << "W" >> }
PlainLines == { << "2" >>, << "ON" >> }
IdVariants == { "EnergyMax", "PowerMax", "Other" }

\* The query and command lines of the plain attribute handlers (lines 427-632):
\* name -> [q: the line read_<name> writes, conv: what it does with the reply,
\* w: the line write_<name> writes ("" when the attribute is read-only; the
\* written value is left out of the line), need: the registration it needs].
Attr(q, conv, w, need) == [q |-> q, conv |-> conv, w |-> w, need |-> need]

PlainAttrs ==
    [ Wavelength |-> Attr("CONFigure:WAVElength?", "float", "CONFigure:WAVElength <v>", "static"),
      Gain_onoff |-> Attr("CONFigure:GAIN:COMPensation?", "onoff", "CONFigure:GAIN:COMPensation <v>", "static"),
      Gain_factor |-> Attr("CONFigure:GAIN:FACTor?", "float", "CONFigure:GAIN:FACTor <v>", "static"),
      Statistics_mode |-> Attr(QSTAT, "onoff", "", "E"),
      Statistics_bsize |-> Attr("CONFigure:STATistics:BSIZe?", "int", "CONFigure:STATistics:BSIZe <v>", "E"),
      Statistics_rmode |-> Attr("CONFigure:STATistics:RMOde?", "cmp", "CONFigure:STATistics:RMOde <v>", "E"),
      Decimation_rate |-> Attr("CONFigure:DECimation?", "int", "CONFigure:DECimation <v>", "E"),
      Aperture_diameter |-> Attr("CONFigure:DIAMeter ?", "float", "CONFigure:DIAMeter <v>", "E"),
      Range |-> Attr("CONFigure:RANGe:SELect?", "range", "CONFigure:RANGe:SELect <v>", "E"),
      Trigger_source |-> Attr("TRIGger:SOURce?", "cmp", "TRIGger:SOURce <v>", "Etrig"),
      Trigger_level |-> Attr("TRIGger:LEVel?", "float", "TRIGger:LEVel <v>", "Etrig"),
      Trigger_slope |-> Attr("TRIGger:SLOPe?", "cmp", "TRIGger:SLOPe <v>", "Etrig"),
      Trigger_delay |-> Attr("TRIGger:DELay?", "float", "TRIGger:DELay <v>", "Etrig"),
      Sensor_type |-> Attr("SYSTem:INFormation:TYPE?", "str", "", "P"),
      J_Mode_Trigger_level |-> Attr("TRIGger:PTJ:LEVel?", "cmp", "TRIGger:PTJ:LEVel <v>", "P") ]

PlainNames == DOMAIN PlainAttrs
PlainWritable == { a \in PlainNames : PlainAttrs[a].w # "" }

\* Every query line.
QueryLines ==
    { QREAD, QIDN, QSNUM, QMODEL, QSTAT, QTYPE, QMEAS, QRANGEMAX }
        \cup { PlainAttrs[a].q : a \in PlainNames }

IsQuery(line) == line \in QueryLines

\* The instrument's possible replies to a query.
Replies(q) ==
    CASE q = QREAD -> ReadLines
      [] q = QSTAT -> OnOffLines
      [] q \in {QTYPE, QMEAS} -> TypeLines
      [] q = QIDN -> { << instrument >> }
      [] OTHER -> PlainLines

\* self.ser.write(line) for each line of sent, in order: the instrument queues
\* one reply per query line.
AfterWrite(buf, sent) == buf \o SelectSeq(sent, IsQuery)

\* What self.ser.readline() may return on input buffer buf, and the buffer
\* after it.
ReadChoices(buf) == IF buf = << >> THEN { Timeout } ELSE Replies(Head(buf))
AfterRead(buf) == IF buf = << >> THEN << >> ELSE Tail(buf)

\* Whether a dynamic attribute that needs registration `need` exists.
Registered(need) ==
    CASE need = "static" -> TRUE
      [] need = "E" -> dyn \in {"EnergyMax", "EnergyMaxNoTrig"}
      [] need = "Etrig" -> dyn = "EnergyMax"
      [] need = "P" -> dyn = "PowerMax"
      [] OTHER -> FALSE

\* The record of a handler's run.
Out(op, status, value, sent, nreads, line) ==
    [op |-> op, status |-> status, value |-> value, sent |-> sent,
     nreads |-> nreads, line |-> line]

----------------------------------------------------------------------------
(* Construction and the connection life cycle *)

Init ==
    /\ instrument \in IdVariants
    /\ phase = "new"
    /\ state = "UNKNOWN"
    /\ lastInit = "none"
    /\ ser = "unset"
    /\ ID = "unset"
    /\ statmode = "unset"
    /\ unitscale = Unset
    /\ unit = ""
    /\ cache = CacheInit
    /\ fresh = {}
    /\ rx = << >>
    /\ dyn = "none"
    /\ hist = << >>
    /\ value_attr = "unset"
    /\ value_hist = << "unset", << >> >>
    /\ out = Out("none", "ok", NoValue, << >>, 0, << >>)

\* Where the try block of init_device raises: opening the port, decoding the
\* *IDN? reply, decoding a later information reply, decoding the
\* statistics-mode reply (EnergyMax), creating the AttributeProxy; or nowhere.
InitFailures == { "open", "idn", "info", "statq", "proxy", "none" }

\* The lines init_device has written when it raises at `fail` (or completes),
\* the instrument announcing variant id and statistics mode st.
InitSent(fail, id, st) ==
    CASE fail = "open" -> << >>
      [] fail = "idn" -> << QIDN >>
      [] fail = "info" -> << QIDN, QSNUM >>
      [] OTHER ->
           << QIDN, QSNUM, QMODEL >>
           \o (IF id = "EnergyMax"
               THEN << CITEMS_E, CITEMS_S, QSTAT >>
                    \o (IF fail # "statq" /\ st = "ON" THEN << CSTART >> ELSE << >>)
               ELSE << >>)
           \o (IF id = "PowerMax" THEN << CITEMS_P >> ELSE << >>)

InitReads(fail, id) ==
    CASE fail = "open" -> 0
      [] fail = "idn" -> 1
      [] fail = "info" -> 2
      [] OTHER -> IF id = "EnergyMax" THEN 4 ELSE 3

\* The statistics-mode answer init_device read and compared with "ON" (lines
\* 103-104), if it got that far.
InitAnswer(fail, id, st) ==
    IF id = "EnergyMax" /\ fail \in {"proxy", "none"} THEN << st >> ELSE << >>

\* Lines 83-121.
InitDevice(fail, id, st) ==
    /\ fail = "statq" => id = "EnergyMax"
    /\ ser' = IF fail = "open" THEN ser ELSE "open"
    \* flushInput on the new port; every query of init_device is read back.
    /\ rx' = IF fail = "open" THEN rx ELSE << >>
    /\ ID' = IF fail \in {"open", "idn"} THEN ID ELSE id
    /\ statmode' = IF fail \in {"open", "idn", "info", "statq"} \/ id # "EnergyMax"
                   THEN statmode
                   ELSE IF st = "ON" THEN "on" ELSE "off"
    /\ state' = IF fail = "none" THEN "ON" ELSE "OFF"
    /\ lastInit' = IF fail = "none" THEN "ok" ELSE "failed"
    /\ value_attr' = IF fail = "none" THEN "set" ELSE value_attr
    /\ out' = Out("init_device", IF fail = "none" THEN "ok" ELSE "caught", NoValue,
                  InitSent(fail, id, st), InitReads(fail, id), InitAnswer(fail, id, st))
    /\ UNCHANGED <<instrument, unitscale, unit, cache, fresh, dyn, hist, value_hist>>

\* The server's start: the framework runs init_device on the new object.
init_device ==
    /\ phase = "new"
    /\ \E fail \in InitFailures, st \in {"ON", "OFF"} :
          InitDevice(fail, instrument, st)
    /\ phase' = "inited"

\* Lines 123-323, run once by the framework after the first init_device; an
\* exception it raises is logged by the framework and the attributes added
\* before it stay.
initialize_dynamic_attributes ==
    /\ phase = "inited"
    /\ phase' = "running"
    /\ IF ID = "unset"
       THEN /\ dyn' = "none"
            /\ out' = Out("initialize_dynamic_attributes", "AttributeError", NoValue, << >>, 0, << >>)
            /\ rx' = rx
       ELSE IF ID = "EnergyMax"
       THEN \E resp \in ReadChoices(AfterWrite(rx, << QRANGEMAX >>)) :
              LET r == Convert("float", resp[1]) IN
              /\ dyn' = IF r.ok THEN "EnergyMax" ELSE "EnergyMaxNoTrig"
              /\ rx' = AfterRead(AfterWrite(rx, << QRANGEMAX >>))
              /\ out' = Out("initialize_dynamic_attributes",
                            IF r.ok THEN "ok" ELSE "ValueError", NoValue,
                            << QRANGEMAX >>, 1, resp)
       ELSE /\ dyn' = IF ID = "PowerMax" THEN "PowerMax" ELSE "none"
            /\ out' = Out("initialize_dynamic_attributes", "ok", NoValue, << >>, 0, << >>)
            /\ rx' = rx
    /\ UNCHANGED <<instrument, state, lastInit, ser, ID, statmode, unitscale, unit, cache,
                   fresh, hist, value_attr, value_hist>>

\* Lines 325-327.
DeleteDevice == state' = "OFF"

\* The framework's Init command: delete_device, then init_device.
Init_command ==
    /\ phase = "running"
    /\ \E fail \in InitFailures, st \in {"ON", "OFF"} :
          InitDevice(fail, instrument, st)
    /\ phase' = phase

\* The server's shutdown: delete_device, after which the object serves nothing.
delete_device ==
    /\ phase = "running"
    /\ DeleteDevice
    /\ phase' = "deleted"
    /\ out' = Out("delete_device", "ok", NoValue, << >>, 0, << >>)
    /\ UNCHANGED <<instrument, lastInit, ser, ID, statmode, unitscale, unit, cache, fresh, rx,
                   dyn, hist, value_attr, value_hist>>

\* Lines 329-330: the state the device reports to its clients.
DevON == << "ON", 0 >>
DevOFF == << "OFF", 0 >>

DevStateResult == DevON

dev_state ==
    /\ phase = "running"
    /\ out' = Out("dev_state", "ok", DevStateResult, << >>, 0, << >>)
    /\ UNCHANGED <<instrument, phase, state, lastInit, ser, ID, statmode, unitscale, unit, cache,
                   fresh, rx, dyn, hist, value_attr, value_hist>>

----------------------------------------------------------------------------
(* The measurement and the unit *)

\* Lines 345-376 on reply line resp: [status, value, c, fresh, sent, nreads].
ReadValue(resp) ==
    IF ser = "unset"
    THEN [status |-> "AttributeError", value |-> NoValue, c |-> cache, fresh |-> {},
          sent |-> << >>, nreads |-> 0]
    ELSE IF ID = "unset" \/ (ID = "EnergyMax" /\ statmode = "unset")
    THEN [status |-> "AttributeError", value |-> NoValue, c |-> cache, fresh |-> {},
          sent |-> << QREAD >>, nreads |-> 1]
    ELSE LET d == Decode(ID, statmode, resp, cache) IN
         [status |-> IF d.err # "none" THEN d.err
                     ELSE IF d.value = Unset THEN "UnboundLocalError"
                     ELSE IF unitscale = Unset THEN "AttributeError"
                     ELSE "ok",
          value |-> IF d.err = "none" /\ d.value # Unset /\ unitscale # Unset
                    THEN Scaled(d.value, unitscale) ELSE NoValue,
          c |-> d.c, fresh |-> d.fresh, sent |-> << QREAD >>, nreads |-> 1]

\* A client's read of the Value attribute.
read_Value ==
    /\ phase = "running"
    /\ LET buf == IF ser = "unset" THEN rx ELSE AfterWrite(rx, << QREAD >>) IN
       \E resp \in (IF ser = "unset" THEN { << >> } ELSE ReadChoices(buf)) :
          LET r == ReadValue(resp) IN
          /\ cache' = r.c
          /\ fresh' = r.fresh
          /\ rx' = IF ser = "unset" THEN rx ELSE AfterRead(buf)
          /\ out' = Out("read_Value", r.status, r.value, r.sent, r.nreads, resp)
    /\ UNCHANGED <<instrument, phase, state, lastInit, ser, ID, statmode, unitscale, unit, dyn,
                   hist, value_attr, value_hist>>

UnitNames == << "J", "mJ", "uJ", "W", "mW", "uW" >>

\* A write_Mode that restarts the statistics on an EnergyMax whatever the flag.
WriteModeSentRestart(v) ==
    LET set_mode == IF v < 3 THEN "J" ELSE "W" IN
    CASE ID = "EnergyMax" /\ ser = "open" ->
           << "CONFigure:MEASure:TYPE " \o set_mode, CSTART >>
      [] ID = "PowerMax" /\ ser = "open" -> << "CONFigure:MEASure " \o set_mode >>
      [] OTHER -> << >>

\* Lines 390-400: the lines write_Mode(v) writes before it returns or raises.
WriteModeSent(v) ==
    LET set_mode == IF v < 3 THEN "J" ELSE "W" IN
    CASE ID = "EnergyMax" /\ ser = "open" ->
           << "CONFigure:MEASure:TYPE " \o set_mode >>
           \o (IF statmode = "on" THEN << CSTART >> ELSE << >>)
      [] ID = "PowerMax" /\ ser = "open" -> << "CONFigure:MEASure " \o set_mode >>
      [] OTHER -> << >>

\* Whether write_Mode raises before line 402: self.ID, self.ser or
\* self.statmode does not exist.
WriteModeRaisesEarly ==
    \/ ID = "unset"
    \/ ID \in {"EnergyMax", "PowerMax"} /\ ser = "unset"
    \/ ID = "EnergyMax" /\ statmode = "unset"

\* A unit scale taken from the measurement type instead of the sub-unit.
NewUnitScaleByType(v) == Int_(v \div 3)

\* Line 402.
NewUnitScale(v) == Int_(v % 3)

\* Lines 389-422: write_Mode(v) for the enumeration index v.  The three
\* AttributeProxy objects of lines 409-422 exist only with the PowerMax
\* attributes registered (Statistics_mean is one of them).
write_Mode ==
    /\ phase = "running"
    /\ \E v \in 0..5 :
         /\ unitscale' = IF WriteModeRaisesEarly THEN unitscale ELSE NewUnitScale(v)
         /\ unit' = IF WriteModeRaisesEarly THEN unit ELSE UnitNames[v + 1]
         /\ out' = Out("write_Mode",
                       IF WriteModeRaisesEarly THEN "AttributeError"
                       ELSE IF dyn # "PowerMax" THEN "DevFailed" ELSE "ok",
                       Int_(v), WriteModeSent(v), 0, << >>)
    /\ UNCHANGED <<instrument, phase, state, lastInit, ser, ID, statmode, cache, fresh, rx, dyn,
                   hist, value_attr, value_hist>>

\* Lines 378-387.
read_Mode ==
    /\ phase = "running"
    /\ LET sent == CASE ID = "EnergyMax" -> << QTYPE >>
                     [] ID = "PowerMax" -> << QMEAS >>
                     [] OTHER -> << >>
           early == ID = "unset" \/ ser = "unset"
           buf == AfterWrite(rx, sent) IN
       IF early
       THEN /\ out' = Out("read_Mode", "AttributeError", NoValue, << >>, 0, << >>)
            /\ rx' = rx
       ELSE \E resp \in ReadChoices(buf) :
            /\ rx' = AfterRead(buf)
            /\ out' = IF unitscale = Unset
                      THEN Out("read_Mode", "AttributeError", NoValue, sent, 1, resp)
                      ELSE Out("read_Mode", "ok",
                               Int_((IF resp = << "J" >> THEN 0 ELSE 3) + unitscale[2]),
                               sent, 1, resp)
    /\ UNCHANGED <<instrument, phase, state, lastInit, ser, ID, statmode, unitscale, unit, cache,
                   fresh, dyn, hist, value_attr, value_hist>>

----------------------------------------------------------------------------
(* The statistics mode and the cached last reading (EnergyMax attributes) *)

\* Lines 467-475: the lines write_Statistics_mode(on) writes.
StatModeSent(on) == IF on THEN << CSTATON, CSTART >> ELSE << CSTOP, CSTATOFF >>

write_Statistics_mode ==
    /\ phase = "running"
    /\ Registered("E")
    /\ \E on \in BOOLEAN :
         IF ser = "unset"
         THEN /\ out' = Out("write_Statistics_mode", "AttributeError", Bool(on), << >>, 0, << >>)
              /\ UNCHANGED <<statmode, rx>>
         ELSE /\ statmode' = IF on THEN "on" ELSE "off"
              /\ rx' = AfterWrite(rx, StatModeSent(on))
              /\ out' = Out("write_Statistics_mode", "ok", Bool(on), StatModeSent(on), 0, << >>)
    /\ UNCHANGED <<instrument, phase, state, lastInit, ser, ID, unitscale, unit, cache, fresh, dyn,
                   hist, value_attr, value_hist>>

ScaledGetters == {"min", "max", "std", "dose"}

\* Lines 477-487: attr.set_value(self.<f> * (1000**self.unitscale)).  The
\* product of '' and an int is '', which a DevDouble attribute rejects.
ScaledGetter(f) ==
    IF cache[f] = Unset \/ unitscale = Unset THEN [status |-> "AttributeError", value |-> NoValue]
    ELSE IF cache[f] = Empty THEN [status |-> "TypeError", value |-> NoValue]
    ELSE [status |-> "ok", value |-> Scaled(cache[f], unitscale)]

\* Lines 489-490 and 424-425: the cached value as it is.
PlainGetter(f) ==
    IF cache[f] = Unset THEN [status |-> "AttributeError", value |-> NoValue]
    ELSE IF cache[f] = Empty THEN [status |-> "TypeError", value |-> NoValue]
    ELSE [status |-> "ok", value |-> cache[f]]

\* read_Statistics_min, _max, _std, _dose.
read_Statistics_scaled ==
    /\ phase = "running"
    /\ Registered("E")
    /\ \E f \in ScaledGetters :
         LET r == ScaledGetter(f) IN
         out' = Out("read_Statistics_" \o f, r.status, r.value, << >>, 0, << >>)
    /\ UNCHANGED <<instrument, phase, state, lastInit, ser, ID, statmode, unitscale, unit, cache,
                   fresh, rx, dyn, hist, value_attr, value_hist>>

read_Statistics_missed ==
    /\ phase = "running"
    /\ Registered("E")
    /\ LET r == PlainGetter("missed") IN
       out' = Out("read_Statistics_missed", r.status, r.value, << >>, 0, << >>)
    /\ UNCHANGED <<instrument, phase, state, lastInit, ser, ID, statmode, unitscale, unit, cache,
                   fresh, rx, dyn, hist, value_attr, value_hist>>

read_SeqID ==
    /\ phase = "running"
    /\ LET r == PlainGetter("seqid") IN
       out' = Out("read_SeqID", r.status, r.value, << >>, 0, << >>)
    /\ UNCHANGED <<instrument, phase, state, lastInit, ser, ID, statmode, unitscale, unit, cache,
                   fresh, rx, dyn, hist, value_attr, value_hist>>

----------------------------------------------------------------------------
(* The plain attribute handlers: one query and its reply, or one command *)

\* What read_<a> makes of the reply line.
PlainResult(a, resp) ==
    LET conv == PlainAttrs[a].conv IN
    CASE conv \in {"float", "int"} ->
           LET r == Convert(conv, resp[1]) IN
           [status |-> IF r.ok THEN "ok" ELSE "ValueError", value |-> r.v]
      [] conv = "range" ->
           \* float(reply) == self.maxrange, which line 223 sets
           LET r == Convert("float", resp[1]) IN
           IF ~r.ok THEN [status |-> "ValueError", value |-> NoValue]
           ELSE IF dyn = "EnergyMaxNoTrig" THEN [status |-> "AttributeError", value |-> NoValue]
           ELSE [status |-> "ok", value |-> Str(0)]
      [] conv = "onoff" -> [status |-> "ok", value |-> Bool(resp = << "ON" >>)]
      [] OTHER -> [status |-> "ok", value |-> Str(0)]

read_Plain ==
    /\ phase = "running"
    /\ \E a \in PlainNames :
         /\ Registered(PlainAttrs[a].need)
         /\ IF ser = "unset"
            THEN /\ out' = Out("read_" \o a, "AttributeError", NoValue, << >>, 0, << >>)
                 /\ rx' = rx
            ELSE LET sent == << PlainAttrs[a].q >>
                     buf == AfterWrite(rx, sent) IN
                 \E resp \in ReadChoices(buf) :
                    LET r == PlainResult(a, resp) IN
                    /\ rx' = AfterRead(buf)
                    /\ out' = Out("read_" \o a, r.status, r.value, sent, 1, resp)
    /\ UNCHANGED <<instrument, phase, state, lastInit, ser, ID, statmode, unitscale, unit, cache,
                   fresh, dyn, hist, value_attr, value_hist>>

write_Plain ==
    /\ phase = "running"
    /\ \E a \in PlainWritable :
         /\ Registered(PlainAttrs[a].need)
         /\ IF ser = "unset"
            THEN /\ out' = Out("write_" \o a, "AttributeError", NoValue, << >>, 0, << >>)
                 /\ rx' = rx
            ELSE /\ out' = Out("write_" \o a, "ok", NoValue, << PlainAttrs[a].w >>, 0, << >>)
                 /\ rx' = AfterWrite(rx, << PlainAttrs[a].w >>)
    /\ UNCHANGED <<instrument, phase, state, lastInit, ser, ID, statmode, unitscale, unit, cache,
                   fresh, dyn, hist, value_attr, value_hist>>

----------------------------------------------------------------------------
(* The pass-through commands *)

\* The most replies left unread on the transport that the runs follow.
MaxPending == 1

\* The arguments the pass-through commands are called with: a query line and
\* a command line.
CmdArgs == { QREAD, CSTOP }

\* The bytes ser.write puts on the wire for a line: the line and a carriage
\* return (bytearray(line + "\r", 'ascii')).
Wire(line) == line \o "\r"

\* readline().decode("utf-8").lstrip().rstrip() as a string result: '' when
\* nothing arrived, else the line (kept as its comma-separated fields).
Raw(resp) == IF resp = Timeout THEN Empty ELSE << "line", resp >>

\* The record of a command's run: a handler's record and the argument.
OutCmd(op, arg, status, value, sent, nreads, line) ==
    [op |-> op, status |-> status, value |-> value, sent |-> sent,
     nreads |-> nreads, line |-> line, arg |-> arg]

\* Lines 637-639: what send_query(arg) does on the reply resp.
SendQuery(arg, resp) ==
    [status |-> "ok", value |-> Raw(resp), sent |-> << arg >>, nreads |-> 1]

\* A send_cmd that hands its argument back.
SendCmdEcho(arg) ==
    [status |-> "ok", value |-> Raw(<< arg >>), sent |-> << arg >>, nreads |-> 0]

\* Lines 642-644: what send_cmd(arg) does.
SendCmd(arg) ==
    [status |-> "ok", value |-> Empty, sent |-> << arg >>, nreads |-> 0]

send_query ==
    /\ phase = "running"
    /\ \E arg \in CmdArgs :
         IF ser = "unset"
         THEN /\ out' = OutCmd("send_query", arg, "AttributeError", NoValue, << >>, 0, << >>)
              /\ rx' = rx
         ELSE LET buf == AfterWrite(rx, << arg >>) IN
              \E resp \in ReadChoices(buf) :
                 LET r == SendQuery(arg, resp) IN
                 /\ rx' = AfterRead(buf)
                 /\ out' = OutCmd("send_query", arg, r.status, r.value, r.sent, r.nreads, resp)
    /\ UNCHANGED <<instrument, phase, state, lastInit, ser, ID, statmode, unitscale, unit, cache,
                   fresh, dyn, hist, value_attr, value_hist>>

send_cmd ==
    /\ phase = "running"
    /\ \E arg \in CmdArgs :
         IF ser = "unset"
         THEN /\ out' = OutCmd("send_cmd", arg, "AttributeError", NoValue, << >>, 0, << >>)
              /\ rx' = rx
         ELSE LET r == SendCmd(arg) IN
              /\ Len(AfterWrite(rx, r.sent)) <= MaxPending
              /\ rx' = AfterWrite(rx, r.sent)
              /\ out' = OutCmd("send_cmd", arg, r.status, r.value, r.sent, r.nreads, << >>)
    /\ UNCHANGED <<instrument, phase, state, lastInit, ser, ID, statmode, unitscale, unit, cache,
                   fresh, dyn, hist, value_attr, value_hist>>

----------------------------------------------------------------------------
(* The rolling statistics over the Value history (PowerMax attributes) *)

\* The replies the polled reads of the rolling-statistics runs draw from.
PollLines == { << "2", "F", "7" >>, << "3", "G", "2" >>, Timeout }

\* The framework's polling of Value: read_Value, its result (or its failure,
\* an entry without a value) pushed on the ring of depth RingDepth.
Push(h, e) == IF Len(h) < RingDepth THEN Append(h, e) ELSE Append(Tail(h), e)

poll_Value ==
    /\ phase = "running"
    /\ ser = "open"
    /\ LET buf == AfterWrite(rx, << QREAD >>) IN
       \E resp \in ReadChoices(buf) \cap PollLines :
          LET r == ReadValue(resp) IN
          /\ cache' = r.c
          /\ fresh' = r.fresh
          /\ rx' = AfterRead(buf)
          /\ hist' = Push(hist, r.value)
          /\ out' = Out("poll_Value", r.status, r.value, r.sent, r.nreads, resp)
    /\ UNCHANGED <<instrument, phase, state, lastInit, ser, ID, statmode, unitscale,
                   unit, dyn, value_attr, value_hist>>

\* Lines 589-592: the history copied into a float array; an entry without a
\* value (None) becomes nan.
ToArray(h) == [i \in 1..Len(h) |-> IF h[i] = NoValue THEN NaN ELSE h[i]]

IsNumber(e) == e # NaN
Numbers(a) == SelectSeq(a, IsNumber)

RECURSIVE SumOf(_)
SumOf(a) == IF a = << >> THEN 0 ELSE Head(a)[2] + SumOf(Tail(a))

RECURSIVE SumSq(_)
SumSq(a) == IF a = << >> THEN 0 ELSE Head(a)[2] * Head(a)[2] + SumSq(Tail(a))

RECURSIVE MinOf(_)
MinOf(a) == IF Len(a) = 1 THEN a[1][2]
            ELSE LET m == MinOf(Tail(a)) IN IF a[1][2] < m THEN a[1][2] ELSE m

RECURSIVE MaxOf(_)
MaxOf(a) == IF Len(a) = 1 THEN a[1][2]
            ELSE LET m == MaxOf(Tail(a)) IN IF a[1][2] > m THEN a[1][2] ELSE m

RECURSIVE GCD(_, _)
GCD(a, b) == IF b = 0 THEN a ELSE GCD(b, a % b)

\* The rational a/b in lowest terms (b > 0).
Ratio(a, b) == << a \div GCD(a, b), b \div GCD(a, b) >>

\* np.nanmean(a): the mean of the entries that are numbers, in tenths, as a
\* rational; nan (with a warning, no exception) when there is none.
NanMean(a) ==
    IF Numbers(a) = << >> THEN NaN
    ELSE << "q", Ratio(SumOf(Numbers(a)), Len(Numbers(a))) >>

\* 100 * (np.nanstd(a) / np.nanmean(a)), the population standard deviation:
\* <<"pct", r>> stands for 100 * sqrt(r), r the rational (n*sum(x^2) -
\* sum(x)^2) / sum(x)^2; nan when no entry is a number or the mean is 0.
NanStdPct(a) ==
    LET x == Numbers(a)
        n == Len(x)
        s == SumOf(x)
    IN IF n = 0 \/ s = 0 THEN NaN
       ELSE << "pct", Ratio(n * SumSq(x) - s * s, s * s) >>

\* Lines 594, 597, 600, 603 on the array a: [status, value].  np.nanmin and
\* np.nanmax raise ValueError on an empty array and give nan on an array of
\* nan only.
Rolling(kind, a) ==
    CASE kind = "mean" -> [status |-> "ok", value |-> NanMean(a)]
      [] kind = "std" -> [status |-> "ok", value |-> NanStdPct(a)]
      [] a = << >> -> [status |-> "ValueError", value |-> NoValue]
      [] Numbers(a) = << >> -> [status |-> "ok", value |-> NaN]
      [] kind = "min" -> [status |-> "ok", value |-> Flt(MinOf(Numbers(a)))]
      [] OTHER -> [status |-> "ok", value |-> Flt(MaxOf(Numbers(a)))]

\* Lines 587-594: fetches the history into self.value_hist and returns its mean.
\* On a ring with no entry yet the history call of line 588 raises DevFailed
\* (no data in the polling cache); a failed polled read is an entry of the
\* ring, without a value.
read_Statistics_calc_mean ==
    /\ phase = "running"
    /\ Registered("P")
    /\ IF value_attr = "unset"
       THEN /\ out' = Out("read_Statistics_calc_mean", "AttributeError", NoValue, << >>, 0, << >>)
            /\ value_hist' = value_hist
       ELSE IF hist = << >>
       THEN /\ out' = Out("read_Statistics_calc_mean", "DevFailed", NoValue, << >>, 0, << >>)
            /\ value_hist' = value_hist
       ELSE LET r == Rolling("mean", ToArray(hist)) IN
            /\ value_hist' = << "set", ToArray(hist) >>
            /\ out' = Out("read_Statistics_calc_mean", r.status, r.value, << >>, 0, << >>)
    /\ UNCHANGED <<instrument, phase, state, lastInit, ser, ID, statmode, unitscale,
                   unit, cache, fresh, rx, dyn, hist, value_attr>>

\* The array read_Statistics_calc_std, _min and _max aggregate.
RestArray == value_hist[2]

\* Lines 596-603: read_Statistics_calc_std, _min and _max.
read_Statistics_calc_rest ==
    /\ phase = "running"
    /\ Registered("P")
    /\ \E kind \in {"std", "min", "max"} :
         IF value_hist[1] = "unset"
         THEN out' = Out("read_Statistics_calc_" \o kind, "AttributeError", NoValue, << >>, 0, << >>)
         ELSE LET r == Rolling(kind, RestArray) IN
              out' = Out("read_Statistics_calc_" \o kind, r.status, r.value, << >>, 0, << >>)
    /\ UNCHANGED <<instrument, phase, state, lastInit, ser, ID, statmode, unitscale,
                   unit, cache, fresh, rx, dyn, hist, value_attr, value_hist>>

----------------------------------------------------------------------------
(* The device served to its clients *)

Next ==
    \/ init_device
    \/ initialize_dynamic_attributes
    \/ Init_command
    \/ delete_device
    \/ dev_state
    \/ read_Value
    \/ write_Mode
    \/ read_Mode
    \/ write_Statistics_mode
    \/ read_Statistics_scaled
    \/ read_Statistics_missed
    \/ read_SeqID

Spec == Init /\ [][Next]_vars

\* The started device serving every attribute handler.
NextIO ==
    \/ init_device
    \/ initialize_dynamic_attributes
    \/ read_Value
    \/ write_Mode
    \/ read_Mode
    \/ write_Statistics_mode
    \/ read_Statistics_scaled
    \/ read_Statistics_missed
    \/ read_SeqID
    \/ read_Plain
    \/ write_Plain

SpecIO == Init /\ [][NextIO]_vars

\* The started device serving the pass-through commands next to the reads
\* and writes that use the transport.
NextCmd ==
    \/ init_device
    \/ initialize_dynamic_attributes
    \/ read_Value
    \/ write_Mode
    \/ read_Mode
    \/ write_Statistics_mode
    \/ send_query
    \/ send_cmd

SpecCmd == Init /\ [][NextCmd]_vars

\* A PowerMax after a successful start and write_Mode(3) (the unit W), its
\* Value attribute polled, serving the rolling statistics.
InitRoll ==
    /\ instrument = "PowerMax"
    /\ phase = "running"
    /\ state = "ON"
    /\ lastInit = "ok"
    /\ ser = "open"
    /\ ID = "PowerMax"
    /\ statmode = "unset"
    /\ unitscale = Int_(0)
    /\ unit = "W"
    /\ cache = CacheInit
    /\ fresh = {}
    /\ rx = << >>
    /\ dyn = "PowerMax"
    /\ hist = << >>
    /\ value_attr = "set"
    /\ value_hist = << "unset", << >> >>
    /\ out = Out("write_Mode", "ok", Int_(3), << "CONFigure:MEASure W" >>, 0, << >>)

NextRoll ==
    \/ poll_Value
    \/ read_Statistics_calc_mean
    \/ read_Statistics_calc_rest

SpecRoll == InitRoll /\ [][NextRoll]_vars

----------------------------------------------------------------------------
(* What the specification says of a reply line (spec.md, section 4.1) *)

\* The field types of the reply line of each layout.
SpecFields(id, sm) ==
    CASE id = "EnergyMax" /\ sm = "off" -> << "float", "int", "str", "int" >>
      [] id = "EnergyMax" /\ sm = "on" ->
           << "float", "float", "float", "float", "float", "int", "str", "int" >>
      [] id = "PowerMax" -> << "float", "str", "int" >>
      [] OTHER -> << >>

\* A line with the layout's field count and a number in every numeric position.
WellFormed(id, sm, line) ==
    /\ SpecFields(id, sm) # << >>
    /\ Len(line) = Len(SpecFields(id, sm))
    /\ \A i \in 1..Len(line) : Convert(SpecFields(id, sm)[i], line[i]).ok

\* The last handler run was read_Value, it completed its READ? exchange, and a
\* layout was active (the variant is known, and on EnergyMax the flag is set).
ReadDecoded ==
    /\ out.op = "read_Value"
    /\ out.nreads = 1
    /\ SpecFields(ID, statmode) # << >>

ReadSucceeded == out.op = "read_Value" /\ out.status = "ok"

\* A cached field holds a value of the sample the last read_Value decoded.
HoldsSample(f) == f \in fresh /\ cache[f] \notin {Unset, Empty}

StatsPopulated == \A f \in StatFields : HoldsSample(f)
StatsUnpopulated == \A f \in StatFields : ~HoldsSample(f)
PeriodPopulated == HoldsSample("period")

UnitScales == { Int_(0), Int_(1), Int_(2) }

----------------------------------------------------------------------------
(* Claims *)

\* C1 (as stated): after every successful read_Value exactly one of the
\* statistics group and the period holds a value of the current sample,
\* never both and never neither.
C1_ExactlyOnePopulated ==
    ReadSucceeded =>
        \/ StatsPopulated /\ ~PeriodPopulated
        \/ StatsUnpopulated /\ PeriodPopulated

\* C1 (amended): after every successful read_Value on an EnergyMax exactly one
\* of the statistics group and the period holds a value of the current sample,
\* the statistics group if the cached statmode flag is on and the period if it
\* is off; on a PowerMax neither does.
C1_PopulatedByVariantAndMode ==
    ReadSucceeded =>
        /\ ID \in {"EnergyMax", "PowerMax"}
        /\ ID = "EnergyMax" /\ statmode = "on" => StatsPopulated /\ ~PeriodPopulated
        /\ ID = "EnergyMax" /\ statmode = "off" => StatsUnpopulated /\ PeriodPopulated
        /\ ID = "EnergyMax" => statmode \in {"on", "off"}
        /\ ID = "PowerMax" => StatsUnpopulated /\ ~PeriodPopulated

\* C1 witness: a successful statistics read while the period of an earlier
\* sample is still cached.
C1_Witness ==
    /\ ReadSucceeded
    /\ ID = "EnergyMax"
    /\ statmode = "on"
    /\ StatsPopulated
    /\ cache.period # Unset

\* C2: a read_Value that fails while decoding its reply line leaves every
\* cached last-reading field as it was before the call.
C2_FailedDecodeKeepsCache ==
    [][ (out'.op = "read_Value" /\ out'.status \in {"IndexError", "ValueError"})
            => cache' = cache ]_vars

\* C3: a reply line whose field count differs from the active layout's, or
\* with a non-numeric field in a numeric position, makes read_Value fail and
\* return no value.
C3_MalformedLineFails ==
    (ReadDecoded /\ ~WellFormed(ID, statmode, out.line))
        => out.status # "ok" /\ out.value = NoValue

\* C4: after a failed init_device no operation performs a READ? exchange or a
\* decode until a later init_device succeeds.
C4_NoReadAfterFailedInit ==
    lastInit = "failed" => ~(out.op = "read_Value" /\ out.sent # << >>)

\* C5: after a failed init_device the state reported by dev_state is OFF, and
\* it is ON only while the last init_device succeeded.
C5_FailedInitReportsOff ==
    out.op = "dev_state" =>
        /\ lastInit = "failed" => out.value = DevOFF
        /\ out.value = DevON => lastInit = "ok" /\ state = "ON"

\* The handlers that are not attribute reads or writes.
OtherOps == { "none", "init_device", "initialize_dynamic_attributes",
              "delete_device", "dev_state", "send_query", "send_cmd" }

IsAttrOp(op) == op \notin OtherOps

C7_ValidLineDecoded ==
    (ReadDecoded /\ WellFormed(ID, statmode, out.line)) =>
        LET d == out.line
            n == Len(out.line)
        IN
        /\ out.status = "ok"
        /\ out.value = Flt(FloatVal(d[1]) * Pow(1000, unitscale[2]))
        /\ cache.seqid = Int_(IntVal(d[n]))
        /\ cache.flags = d[n - 1]
        /\ n = 8 =>
              /\ cache.min = Flt(FloatVal(d[2]))
              /\ cache.max = Flt(FloatVal(d[3]))
              /\ cache.std = Flt(FloatVal(d[4]))
              /\ cache.dose = Flt(FloatVal(d[5]))
              /\ cache.missed = Int_(IntVal(d[6]))
        /\ n # 8 => StatsUnpopulated
        /\ ID = "PowerMax" =>
              \A f \in StatFields \cup {"period"} : cache[f] = Unset

\* C7, what holds of it: the fields are cached as stated on every well-formed
\* line, and the value is returned as stated once write_Mode has set a unit
\* scale.
C7_DecodedOnceScaleIsSet ==
    (ReadDecoded /\ WellFormed(ID, statmode, out.line)) =>
        LET d == out.line
            n == Len(out.line)
        IN
        /\ cache.seqid = Int_(IntVal(d[n]))
        /\ cache.flags = d[n - 1]
        /\ unitscale \in UnitScales =>
              /\ out.status = "ok"
              /\ out.value = Flt(FloatVal(d[1]) * Pow(1000, unitscale[2]))
        /\ unitscale \notin UnitScales => out.status = "AttributeError"
        /\ n = 8 =>
              /\ cache.min = Flt(FloatVal(d[2]))
              /\ cache.max = Flt(FloatVal(d[3]))
              /\ cache.std = Flt(FloatVal(d[4]))
              /\ cache.dose = Flt(FloatVal(d[5]))
              /\ cache.missed = Int_(IntVal(d[6]))
        /\ n # 8 => StatsUnpopulated
        /\ ID = "PowerMax" =>
              \A f \in StatFields \cup {"period"} : cache[f] = Unset

\* A statistics line decoded and returned in milli-units.
C7_DecodedScaled ==
    /\ ReadSucceeded
    /\ ID = "EnergyMax"
    /\ statmode = "on"
    /\ WellFormed(ID, statmode, out.line)
    /\ unitscale = Int_(1)
    /\ out.value = Flt(30000)

\* C8: the cached min, max, std and dose are the raw wire values whatever the
\* unit scale, read_Statistics_min/max/std/dose return them multiplied by
\* 1000^unitscale with the unit scale current at that read, and
\* read_Statistics_missed and read_SeqID return the cached integers unscaled.
C8_StatisticsScaledOnRead ==
    /\ (ReadDecoded /\ statmode = "on" /\ WellFormed(ID, statmode, out.line)) =>
          /\ cache.min = Flt(FloatVal(out.line[2]))
          /\ cache.max = Flt(FloatVal(out.line[3]))
          /\ cache.std = Flt(FloatVal(out.line[4]))
          /\ cache.dose = Flt(FloatVal(out.line[5]))
    /\ \A f \in ScaledGetters :
          (out.op = "read_Statistics_" \o f /\ IsFloat(cache[f])) =>
              /\ out.status = "ok"
              /\ out.value = Flt(cache[f][2] * Pow(1000, unitscale[2]))
    /\ (out.op = "read_Statistics_missed" /\ IsInt(cache.missed)) =>
          out.status = "ok" /\ out.value = cache.missed
    /\ (out.op = "read_SeqID" /\ IsInt(cache.seqid)) =>
          out.status = "ok" /\ out.value = cache.seqid

\* C8, what holds of it: the cache is raw, the integer getters are unscaled,
\* and the four float getters scale at read time once write_Mode has set a
\* unit scale.
C8_ScaledOnceScaleIsSet ==
    /\ (ReadDecoded /\ statmode = "on" /\ WellFormed(ID, statmode, out.line)) =>
          /\ cache.min = Flt(FloatVal(out.line[2]))
          /\ cache.max = Flt(FloatVal(out.line[3]))
          /\ cache.std = Flt(FloatVal(out.line[4]))
          /\ cache.dose = Flt(FloatVal(out.line[5]))
    /\ \A f \in ScaledGetters :
          (out.op = "read_Statistics_" \o f /\ IsFloat(cache[f])) =>
              IF unitscale \in UnitScales
              THEN /\ out.status = "ok"
                   /\ out.value = Flt(cache[f][2] * Pow(1000, unitscale[2]))
              ELSE out.status = "AttributeError"
    /\ (out.op = "read_Statistics_missed" /\ IsInt(cache.missed)) =>
          out.status = "ok" /\ out.value = cache.missed
    /\ (out.op = "read_SeqID" /\ IsInt(cache.seqid)) =>
          out.status = "ok" /\ out.value = cache.seqid

\* The raw minimum 1.5 is cached while the unit scale is 2, and
\* read_Statistics_min returns 1.5 * 1000^2.
C8_ScaledMinimum ==
    /\ out.op = "read_Statistics_min"
    /\ out.status = "ok"
    /\ unitscale = Int_(2)
    /\ cache.min = Flt(15)
    /\ out.value = Flt(15000000)

\* C9: in every state after a successful init_device the unit scale is defined
\* and one of 0, 1, 2, and it is changed only by write_Mode(v), which sets it
\* to v mod 3.
C9_UnitScaleDefined ==
    [][ /\ lastInit' = "ok" => unitscale' \in UnitScales
        /\ unitscale' # unitscale =>
              out'.op = "write_Mode" /\ unitscale' = Int_(out'.value[2] % 3) ]_vars

CalcKinds == { "mean", "std", "min", "max" }

\* C10: on a PowerMax each of the four rolling statistics, whenever it is read
\* and in whatever order, is computed over the contents of the Value history
\* ring buffer at the time of that read (a buffer that holds an entry).
C10_RollingOverCurrentBuffer ==
    \A kind \in CalcKinds :
        (out.op = "read_Statistics_calc_" \o kind /\ hist # << >>) =>
            /\ out.status = Rolling(kind, ToArray(hist)).status
            /\ out.value = Rolling(kind, ToArray(hist)).value

CmdOps == { "send_query", "send_cmd" }

C12_NoNaNResult ==
    \A kind \in CalcKinds :
        (out.op = "read_Statistics_calc_" \o kind /\ Numbers(ToArray(hist)) = << >>) =>
            out.status # "ok" /\ out.value # NaN

\* The cached fields after the assignments `steps` have run on `line`.
CacheAfter(steps, line) ==
    RunSteps(steps, line, [c |-> cache, value |-> Unset, fresh |-> {}, err |-> "none"]).c

IsPublicOp(op) == IsAttrOp(op) \/ op \in CmdOps

\* C14: with one reply line per query line and none for any other line, after
\* any sequence of public operations every reply line an operation reads
\* answers the query that operation wrote (no older reply is waiting when it
\* starts), and no unread reply is left on the transport when it returns.
C14_RepliesInSync ==
    [][ IsPublicOp(out'.op) =>
          /\ out'.nreads = 1 => rx = << >>
          /\ rx' = << >>
      ]_vars

\* What a unit label says: its index in [J, mJ, uJ, W, mW, uW], its
\* measurement type and the power of 1000 of its sub-unit.
LabelIndex(l) == CHOOSE v \in 0..5 : UnitNames[v + 1] = l
LabelType(l) == IF l \in {"J", "mJ", "uJ"} THEN "J" ELSE "W"
LabelScale(l) == CASE l \in {"J", "W"} -> 0
                   [] l \in {"mJ", "mW"} -> 1
                   [] OTHER -> 2

\* C15: for every v in 0..5, write_Mode(v) on an identified device sets the
\* unit scale to v mod 3 and the unit label of Value to [J, mJ, uJ, W, mW,
\* uW][v]; only write_Mode changes the label, so the label's sub-unit always
\* matches the unit scale; and read_Mode, when the instrument answers with the
\* measurement type last requested, returns the last written v.
C15_ModeRoundTrip ==
    [][ /\ (out'.op = "write_Mode" /\ out'.status \in {"ok", "DevFailed"}) =>
              /\ unit' = UnitNames[out'.value[2] + 1]
              /\ unitscale' = Int_(out'.value[2] % 3)
        /\ unit' # unit => out'.op = "write_Mode"
        /\ unit' # "" =>
              /\ unitscale' \in UnitScales
              /\ LabelScale(unit') = unitscale'[2]
        /\ (out'.op = "read_Mode" /\ unit' # "" /\ out'.line = << LabelType(unit') >>) =>
              /\ out'.status = "ok"
              /\ out'.value = Int_(LabelIndex(unit'))
      ]_vars

\* C15 witness: after write_Mode(4) the label is mW, and read_Mode, answered
\* with W, returns 4.
C15_Witness ==
    /\ out.op = "read_Mode"
    /\ out.line = << "W" >>
    /\ unit = "mW"
    /\ unitscale = Int_(1)
    /\ out.value = Int_(4)

====
